---- MODULE Spec2Model ----
(***************************************************************************)
(* Model of the coffee-shop drinks API (backend/src/api.py): five request  *)
(* handlers over one table of drinks, gated by a permission check, with    *)
(* failures mapped to JSON error responses by registered error handlers.   *)
(*                                                                         *)
(* Spec      : requests are served one at a time, each handler atomic.     *)
(* SpecConc  : two workers serve PATCH / DELETE requests step by step      *)
(*             (find-by-id, write, respond), interleaved.                  *)
(***************************************************************************)
EXTENDS Integers, Sequences, FiniteSets, TLC

\* ------------------------------------------------------------------ bounds
\* Ids the table may hold: a POST that would assign an id above MaxId is not taken.
MaxId == 2

Ids == 1..MaxId
Workers == {"w1", "w2"}

\* ------------------------------------------------------------ JSON values
JNull == [k |-> "null"]
JStr(s) == [k |-> "str", s |-> s]
JList(items) == [k |-> "list", items |-> items]

Water == [name |-> "water", color |-> "blue", parts |-> 1]
EmptyList == JList(<< >>)
Milk == [name |-> "milk", color |-> "white", parts |-> 2]
ListA == JList(<<Water>>)
ListB == JList(<<Milk, Water>>)
\* The JSON values a request body's "recipe" takes here: an empty list, lists of
\* ingredient entries, and a value that is no list.
RecipeValues == {EmptyList, ListA, ListB, JStr("x")}
TitleValues == {JStr(""), JStr("a"), JStr("b")}
JsonValues == {JNull} \cup RecipeValues \cup TitleValues

\* Python truthiness of a JSON value (None, "" and [] are falsy).
Truthy(v) ==
    CASE v.k = "null" -> FALSE
      [] v.k = "str" -> v.s # ""
      [] v.k = "list" -> Len(v.items) > 0

\* json.dumps: the serialized text of a JSON value.
DumpsEntry(e) ==
    "{\"name\": \"" \o e.name \o "\", \"color\": \"" \o e.color
        \o "\", \"parts\": " \o ToString(e.parts) \o "}"

RECURSIVE DumpsItems(_)
DumpsItems(s) ==
    IF Len(s) = 0 THEN ""
    ELSE IF Len(s) = 1 THEN DumpsEntry(s[1])
    ELSE DumpsEntry(s[1]) \o ", " \o DumpsItems(Tail(s))

Dumps(v) ==
    CASE v.k = "null" -> "null"
      [] v.k = "str" -> "\"" \o v.s \o "\""
      [] v.k = "list" -> "[" \o DumpsItems(v.items) \o "]"

\* json.loads: the JSON value a serialized text stands for.
Loads(t) == CHOOSE v \in JsonValues : Dumps(v) = t

\* --------------------------------------------------------------- requests
\* request.get_json(): None for a request that carries no JSON body, else the
\* object it carries.
NoBody == [kind |-> "none"]
BodyObj(f) == [kind |-> "obj", fields |-> f]
Bodies ==
    {NoBody}
    \cup {BodyObj([x \in {} |-> JNull])}
    \cup {BodyObj([title |-> t]) : t \in TitleValues}
    \cup {BodyObj([recipe |-> r]) : r \in RecipeValues}
    \cup {BodyObj([title |-> t, recipe |-> r]) : t \in TitleValues, r \in RecipeValues}

Has(body, key) == body.kind = "obj" /\ key \in DOMAIN body.fields
\* body.get(key, None)
Get(body, key) == IF key \in DOMAIN body.fields THEN body.fields[key] ELSE JNull

Permissions == {"get:drinks-detail", "post:drinks", "patch:drinks", "delete:drinks"}
Token(hdr, valid, hasPerms, perms) ==
    [hdr |-> hdr, valid |-> valid, hasPerms |-> hasPerms, perms |-> perms]
NoHeader == Token("missing", FALSE, FALSE, {})
BadHeader == Token("malformed", FALSE, FALSE, {})
BadToken == Token("bearer", FALSE, FALSE, {})
NoPermClaim == Token("bearer", TRUE, FALSE, {})
Barista == Token("bearer", TRUE, TRUE, {"get:drinks-detail"})
Editor == Token("bearer", TRUE, TRUE, Permissions \ {"get:drinks-detail"})
Manager == Token("bearer", TRUE, TRUE, Permissions)
Tokens == {NoHeader, BadHeader, BadToken, NoPermClaim, Barista, Editor, Manager}

Request(method, path, token, id, body) ==
    [method |-> method, path |-> path, token |-> token, id |-> id, body |-> body]
NoReq == [method |-> "none"]
NoResp == [status |-> 0]

\* ------------------------------------------------------------------ state
VARIABLES
    store,   \* the drink table: id -> row or NoRow
    req,     \* Spec: the request just served (NoReq between requests)
    resp,    \* Spec: its response
    ran,     \* Spec: whether the handler's body ran for it
    pc,      \* SpecConc: each worker's position in its handler
    wreq,    \* SpecConc: each worker's request
    wresp    \* SpecConc: each worker's response

vars == <<store, req, resp, ran, pc, wreq, wresp>>

NoRow == [kind |-> "norow"]
Row(title, recipe) == [kind |-> "row", title |-> title, recipe |-> recipe]
EmptyStore == [i \in Ids |-> NoRow]
Present(s) == {i \in Ids : s[i] # NoRow}

\* order_by(Drink.id).all(): the ids of a set of rows, ascending.
RECURSIVE Ascending(_)
Ascending(S) ==
    IF S = {} THEN << >>
    ELSE LET m == CHOOSE x \in S : \A y \in S : x <= y
         IN <<m>> \o Ascending(S \ {m})

\* Drink.query.order_by(Drink.id).all()
all_drinks(s) == Ascending(Present(s))

\* ------------------------------------------------------- the Drink model
\* Drink.long(): id, title and the deserialized recipe.
long(id, row) == [id |-> id, title |-> row.title, recipe |-> Loads(row.recipe)]

\* Drink.short() iterates the deserialized recipe and reads each entry's color
\* and parts; it raises when the recipe is no list of entries.
short_raises(row) == Loads(row.recipe).k # "list"
short(id, row) ==
    LET items == Loads(row.recipe).items
    IN [id |-> id, title |-> row.title,
        recipe |-> [n \in 1..Len(items) |->
                       [color |-> items[n].color, parts |-> items[n].parts]]]

\* The id the table assigns to an inserted row.
NewId(s) == IF Present(s) = {} THEN 1
            ELSE (CHOOSE x \in Present(s) : \A y \in Present(s) : y <= x) + 1

\* title is required and unique: the insert or update of a row fails otherwise.
TitleTaken(s, id, title) == \E j \in Present(s) : j # id /\ s[j].title = title

\* Drink.insert(): add the row and commit; raises on a constraint violation.
insert_raises(s, title) == title = JNull \/ TitleTaken(s, 0, title)
insert(s, title, recipe) == [s EXCEPT ![NewId(s)] = Row(title, recipe)]

\* Whether a PATCH assigned an attribute on the loaded object.
Dirty(ch) == ch.setTitle \/ ch.setRecipe

\* Drink.update(): commit the assigned attributes as an UPDATE of the row with
\* this id. Raises when the row is gone or the new title is taken.
update_raises(s, id, ch) ==
    Dirty(ch) /\ (s[id] = NoRow \/ (ch.setTitle /\ TitleTaken(s, id, ch.title)))
update(s, id, ch) ==
    IF ~Dirty(ch) THEN s
    ELSE [s EXCEPT ![id] =
             Row(IF ch.setTitle THEN ch.title ELSE s[id].title,
                 IF ch.setRecipe THEN ch.recipe ELSE s[id].recipe)]

\* Drink.delete(): delete the row with this id and commit.
delete(s, id) == [s EXCEPT ![id] = NoRow]

\* ------------------------------------------------------------------ auth
\* A failure of the gate: the verifier raises an AuthError carrying a status
\* and a code/description pair; the permission check fails with a 400 or a 403
\* carrying the same kind of pair as the abort's description.
CodeDict(code, description) ==
    [k |-> "dict", code |-> code, description |-> description]
AuthError(code, description, status) ==
    [ok |-> FALSE, via |-> "AuthError", status_code |-> status,
     error |-> CodeDict(code, description)]
Abort(status, code, description) ==
    [ok |-> FALSE, via |-> "abort", status_code |-> status,
     error |-> CodeDict(code, description)]
AuthOk == [ok |-> TRUE]

\* requires_auth(permission): read the header, verify the token, check the
\* permission; the failure, or AuthOk when the handler may run.
requires_auth(permission, token) ==
    IF token.hdr = "missing"
    THEN AuthError("authorization_header_missing", "Authorization header is expected.", 401)
    ELSE IF token.hdr = "malformed"
    THEN AuthError("invalid_header", "Authorization header must be Bearer token.", 401)
    ELSE IF ~token.valid
    THEN AuthError("invalid_token", "Token could not be verified.", 401)
    ELSE IF ~token.hasPerms
    THEN Abort(400, "invalid_claims", "Permissions not included in token.")
    ELSE IF permission \notin token.perms
    THEN Abort(403, "forbidden", "Permission not found.")
    ELSE AuthOk

\* -------------------------------------------------------- error handlers
Response(status, body) == [status |-> status, body |-> body]
Envelope(code, message) == [success |-> FALSE, error |-> code, message |-> message]

\* isinstance(description, dict) and 'code' in it and 'description' in it
IsCodeDict(description) == description.k = "dict"
CodeMessage(description) == description.code \o " : " \o description.description

not_found == Response(404, Envelope(404, "resource not found"))
unprocessable == Response(422, Envelope(422, "unprocessable"))
internal_server_error == Response(500, Envelope(500, "Internal server error"))

bad_request(description) ==
    IF IsCodeDict(description)
    THEN Response(400, Envelope(400, CodeMessage(description)))
    ELSE Response(400, Envelope(400, "bad request"))

unauthorized(description) ==
    IF IsCodeDict(description)
    THEN Response(401, Envelope(401, CodeMessage(description)))
    ELSE Response(401, Envelope(401, "Unauthorized"))

forbidden(description) ==
    IF IsCodeDict(description)
    THEN Response(403, Envelope(403, CodeMessage(description)))
    ELSE Response(403, Envelope(403, "Forbidden"))

\* @app.errorhandler(AuthError): the error's payload as the body.
handle_auth_error(ex) ==
    Response(ex.status_code,
             [code |-> ex.error.code, description |-> ex.error.description])

\* The registered handler that answers a failure of the gate.
errorhandler(failure) ==
    IF failure.via = "AuthError" THEN handle_auth_error(failure)
    ELSE IF failure.status_code = 400 THEN bad_request(failure.error)
    ELSE IF failure.status_code = 401 THEN unauthorized(failure.error)
    ELSE forbidden(failure.error)

Ok(body) == Response(200, body)
Drinks(list) == [success |-> TRUE, drinks |-> list]
\* The outcome of a request: the table it leaves, the response, and whether the
\* handler's body ran (it does not when the gate failed).
Result(s, r) == [store |-> s, resp |-> r, ran |-> TRUE]
Refused(s, failure) == [store |-> s, resp |-> errorhandler(failure), ran |-> FALSE]

\* --------------------------------------------------------------- handlers
\* Each handler as a function of the table and the request: the table it
\* leaves and the response the client gets.

\* GET /drinks
retrieve_drinks(s) ==
    LET all == all_drinks(s)
    IN IF Len(all) = 0 THEN Result(s, not_found)
       ELSE IF \E n \in 1..Len(all) : short_raises(s[all[n]])
       THEN Result(s, internal_server_error)
       ELSE Result(s, Ok(Drinks([n \in 1..Len(all) |-> short(all[n], s[all[n]])])))

\* GET /drinks-detail
get_drinks_detail(s, token) ==
    LET auth == requires_auth("get:drinks-detail", token)
        all == all_drinks(s)
    IN IF ~auth.ok THEN Refused(s, auth)
       ELSE IF Len(all) = 0 THEN Result(s, not_found)
       ELSE Result(s, Ok(Drinks([n \in 1..Len(all) |-> long(all[n], s[all[n]])])))

\* create_drink reading the recipe under a key the body never has.
create_drink_wrong_key(s, token, body) ==
    LET auth == requires_auth("post:drinks", token)
    IN IF ~auth.ok THEN Refused(s, auth)
       ELSE IF body.kind = "none" THEN Result(s, internal_server_error)
       ELSE LET new_title == Get(body, "title")
                new_recipe == Dumps(Get(body, "recipes"))
            IN IF insert_raises(s, new_title) THEN Result(s, unprocessable)
               ELSE LET s2 == insert(s, new_title, new_recipe)
                    IN Result(s2, Ok(Drinks(<<long(NewId(s), s2[NewId(s)])>>)))

\* POST /drinks
create_drink(s, token, body) ==
    LET auth == requires_auth("post:drinks", token)
    IN IF ~auth.ok THEN Refused(s, auth)
       \* body.get on None raises outside the try block
       ELSE IF body.kind = "none" THEN Result(s, internal_server_error)
       ELSE LET new_title == Get(body, "title")
                new_recipe == Dumps(Get(body, "recipe"))
            IN IF insert_raises(s, new_title) THEN Result(s, unprocessable)
               ELSE LET s2 == insert(s, new_title, new_recipe)
                    IN Result(s2, Ok(Drinks(<<long(NewId(s), s2[NewId(s)])>>)))

\* modify_drink assigning the recipe without the test that the body gave one.
modify_fields_unguarded(body) ==
    LET new_title == Get(body, "title")
        new_recipe == Get(body, "recipe")
    IN [setTitle |-> Truthy(new_title), title |-> new_title,
        setRecipe |-> TRUE, recipe |-> Dumps(new_recipe)]

\* The attributes modify_drink assigns from the request body.
modify_fields(body) ==
    LET new_title == Get(body, "title")
        new_recipe == Get(body, "recipe")
    IN [setTitle |-> Truthy(new_title), title |-> new_title,
        setRecipe |-> Truthy(new_recipe),
        recipe |-> IF Truthy(new_recipe) THEN Dumps(new_recipe) ELSE ""]

\* PATCH /drinks/<id>
modify_drink(s, token, drink_id, body) ==
    LET auth == requires_auth("patch:drinks", token)
    IN IF ~auth.ok THEN Refused(s, auth)
       ELSE IF s[drink_id] = NoRow THEN Result(s, not_found)
       \* body.get on None raises inside the try block
       ELSE IF body.kind = "none" THEN Result(s, unprocessable)
       ELSE LET ch == modify_fields(body)
            IN IF update_raises(s, drink_id, ch) THEN Result(s, unprocessable)
               ELSE LET s2 == update(s, drink_id, ch)
                    IN Result(s2, Ok(Drinks(<<long(drink_id, s2[drink_id])>>)))

\* delete_drink without its @requires_auth decorator.
delete_drink_ungated(s, token, drink_id) ==
    IF s[drink_id] = NoRow THEN Result(s, not_found)
    ELSE Result(delete(s, drink_id), Ok([success |-> TRUE, delete |-> drink_id]))

\* delete_drink answering 200 without the call of drink_obj.delete().
delete_drink_no_delete(s, token, drink_id) ==
    LET auth == requires_auth("delete:drinks", token)
    IN IF ~auth.ok THEN Refused(s, auth)
       ELSE IF s[drink_id] = NoRow THEN Result(s, not_found)
       ELSE Result(s, Ok([success |-> TRUE, delete |-> drink_id]))

\* DELETE /drinks/<id>
delete_drink(s, token, drink_id) ==
    LET auth == requires_auth("delete:drinks", token)
    IN IF ~auth.ok THEN Refused(s, auth)
       ELSE IF s[drink_id] = NoRow THEN Result(s, not_found)
       ELSE Result(delete(s, drink_id), Ok([success |-> TRUE, delete |-> drink_id]))

\* ------------------------------------------------- Spec: one at a time
\* db_drop_and_create_all() has run: the table is empty and no request is in
\* progress.
Init ==
    /\ store = EmptyStore
    /\ req = NoReq
    /\ resp = NoResp
    /\ ran = FALSE
    /\ pc = [w \in Workers |-> "idle"]
    /\ wreq = [w \in Workers |-> NoReq]
    /\ wresp = [w \in Workers |-> NoResp]

Serve(r, out) ==
    /\ req' = r
    /\ resp' = out.resp
    /\ ran' = out.ran
    /\ store' = out.store
    /\ UNCHANGED <<pc, wreq, wresp>>

GetDrinks ==
    /\ req = NoReq
    /\ \E token \in Tokens :
        Serve(Request("GET", "/drinks", token, 0, NoBody), retrieve_drinks(store))

GetDrinksDetail ==
    /\ req = NoReq
    /\ \E token \in Tokens :
        Serve(Request("GET", "/drinks-detail", token, 0, NoBody),
              get_drinks_detail(store, token))

PostDrinks ==
    /\ req = NoReq
    /\ NewId(store) <= MaxId
    /\ \E token \in Tokens, body \in Bodies :
        Serve(Request("POST", "/drinks", token, 0, body),
              create_drink(store, token, body))

PatchDrinks ==
    /\ req = NoReq
    /\ \E token \in Tokens, id \in Ids, body \in Bodies :
        Serve(Request("PATCH", "/drinks/<id>", token, id, body),
              modify_drink(store, token, id, body))

DeleteDrinks ==
    /\ req = NoReq
    /\ \E token \in Tokens, id \in Ids :
        Serve(Request("DELETE", "/drinks/<id>", token, id, NoBody),
              delete_drink(store, token, id))

\* The response is sent; the next request may be served.
SendResponse ==
    /\ req # NoReq
    /\ req' = NoReq
    /\ resp' = NoResp
    /\ ran' = FALSE
    /\ UNCHANGED <<store, pc, wreq, wresp>>

Next ==
    \/ GetDrinks
    \/ GetDrinksDetail
    \/ PostDrinks
    \/ PatchDrinks
    \/ DeleteDrinks
    \/ SendResponse

Spec == Init /\ [][Next]_vars

\* ------------------------------------- SpecConc: two interleaved workers
\* Each worker serves one PATCH or DELETE request in the steps its handler takes
\* against the table: the query by id, the commit, and (PATCH) the reload of the
\* committed object that drink_obj.long() reads. Steps of the two workers
\* interleave freely.
ConcTokens == {Barista, Manager}

\* The table the two requests start from (two POSTs under Spec lead to it).
ConcStore0 ==
    [i \in Ids |-> IF i = 1 THEN Row(JStr("a"), Dumps(ListA))
                   ELSE IF i = 2 THEN Row(JStr("b"), Dumps(EmptyList))
                   ELSE NoRow]

InitConc ==
    /\ store = ConcStore0
    /\ req = NoReq
    /\ resp = NoResp
    /\ ran = FALSE
    /\ pc = [w \in Workers |-> "idle"]
    /\ wreq = [w \in Workers |-> NoReq]
    /\ wresp = [w \in Workers |-> NoResp]

Finish(w, r) ==
    /\ pc' = [pc EXCEPT ![w] = "done"]
    /\ wresp' = [wresp EXCEPT ![w] = r]

\* The gate, then Drink.query.filter(Drink.id == drink_id).one_or_none()
Find(w, r, permission) ==
    LET auth == requires_auth(permission, r.token)
    IN /\ wreq' = [wreq EXCEPT ![w] = r]
       /\ IF ~auth.ok THEN Finish(w, errorhandler(auth))
          ELSE IF store[r.id] = NoRow THEN Finish(w, not_found)
          ELSE /\ pc' = [pc EXCEPT ![w] = "found"]
               /\ UNCHANGED wresp
       /\ UNCHANGED <<store, req, resp, ran>>

modify_find(w) ==
    /\ pc[w] = "idle"
    /\ \E token \in ConcTokens, id \in Ids, body \in Bodies :
        Find(w, Request("PATCH", "/drinks/<id>", token, id, body), "patch:drinks")

\* The assignments from the body and drink_obj.update()
modify_update(w) ==
    /\ pc[w] = "found"
    /\ wreq[w].method = "PATCH"
    /\ LET id == wreq[w].id
           body == wreq[w].body
       IN IF body.kind = "none" \/ update_raises(store, id, modify_fields(body))
          THEN Finish(w, unprocessable) /\ UNCHANGED store
          ELSE /\ store' = update(store, id, modify_fields(body))
               /\ pc' = [pc EXCEPT ![w] = "updated"]
               /\ UNCHANGED wresp
    /\ UNCHANGED <<req, resp, ran, wreq>>

\* drink_obj.long() on the committed object: its attributes are reloaded from
\* the table, which raises (inside the try block) when the row is gone.
modify_respond(w) ==
    /\ pc[w] = "updated"
    /\ LET id == wreq[w].id
       IN IF store[id] = NoRow THEN Finish(w, unprocessable)
          ELSE Finish(w, Ok(Drinks(<<long(id, store[id])>>)))
    /\ UNCHANGED <<store, req, resp, ran, wreq>>

delete_find(w) ==
    /\ pc[w] = "idle"
    /\ \E token \in ConcTokens, id \in Ids :
        Find(w, Request("DELETE", "/drinks/<id>", token, id, NoBody), "delete:drinks")

\* delete_drink deleting through the unfiltered query: every row goes.
delete_commit_unfiltered(w) ==
    /\ pc[w] = "found"
    /\ wreq[w].method = "DELETE"
    /\ store' = EmptyStore
    /\ Finish(w, Ok([success |-> TRUE, delete |-> wreq[w].id]))
    /\ UNCHANGED <<req, resp, ran, wreq>>

\* drink_obj.delete() and the response
delete_commit(w) ==
    /\ pc[w] = "found"
    /\ wreq[w].method = "DELETE"
    /\ store' = delete(store, wreq[w].id)
    /\ Finish(w, Ok([success |-> TRUE, delete |-> wreq[w].id]))
    /\ UNCHANGED <<req, resp, ran, wreq>>

NextConc ==
    \E w \in Workers :
        \/ modify_find(w)
        \/ modify_update(w)
        \/ modify_respond(w)
        \/ delete_find(w)
        \/ delete_commit(w)

SpecConc == InitConc /\ [][NextConc]_vars

\* ================================================================ claims
\* What the API's contract says of a request, stated apart from the handlers.
Handled == req = NoReq /\ req' # NoReq
IsRoute(r, method, path) == r.method = method /\ r.path = path
Protected(r) == ~IsRoute(r, "GET", "/drinks")
RequiredPermission(r) ==
    CASE IsRoute(r, "GET", "/drinks-detail") -> "get:drinks-detail"
      [] r.method = "POST" -> "post:drinks"
      [] r.method = "PATCH" -> "patch:drinks"
      [] r.method = "DELETE" -> "delete:drinks"
Verified(token) == token.hdr = "bearer" /\ token.valid
Authorized(r) ==
    /\ Protected(r)
    /\ Verified(r.token)
    /\ r.token.hasPerms
    /\ RequiredPermission(r) \in r.token.perms
ReturnedIds(r) == {r.body.drinks[n].id : n \in DOMAIN r.body.drinks}

\* C1: on every protected route, a verified token whose permission list lacks
\* the route's permission is answered 403 and a request without an
\* Authorization header 401; in both cases the handler's body does not run and
\* the table is unchanged.
C1_GateRefuses ==
    [][(Handled /\ Protected(req')) =>
         /\ (Verified(req'.token) /\ req'.token.hasPerms
               /\ RequiredPermission(req') \notin req'.token.perms)
              => (resp'.status = 403 /\ ~ran' /\ store' = store)
         /\ (req'.token.hdr = "missing")
              => (resp'.status = 401 /\ ~ran' /\ store' = store)]_vars

C1_Witness ==
    /\ req # NoReq
    /\ req.method = "DELETE"
    /\ req.token = Barista
    /\ store[req.id] # NoRow
    /\ resp.status = 403
    /\ ~ran

\* C2: GET /drinks and an authorized GET /drinks-detail answer 404 exactly when
\* the table is empty and otherwise 200 with one entry per stored drink in
\* ascending id order; neither changes the table.
C2_ListOrNotFound ==
    [][(Handled /\ (IsRoute(req', "GET", "/drinks")
                     \/ (IsRoute(req', "GET", "/drinks-detail") /\ Authorized(req')))) =>
         /\ store' = store
         /\ (resp'.status = 404) <=> (Present(store) = {})
         /\ Present(store) # {} =>
              /\ resp'.status = 200
              /\ Len(resp'.body.drinks) = Cardinality(Present(store))
              /\ ReturnedIds(resp') = Present(store)
              /\ \A n, m \in DOMAIN resp'.body.drinks :
                    n < m => resp'.body.drinks[n].id < resp'.body.drinks[m].id]_vars

\* C3: an authorized PATCH of an existing drink whose body has only a title
\* leaves the stored recipe unchanged, and one whose body has only a recipe
\* leaves the stored title unchanged.
C3_PatchFrame ==
    [][(Handled /\ req'.method = "PATCH" /\ Authorized(req')
          /\ store[req'.id] # NoRow /\ req'.body.kind = "obj") =>
         /\ (Has(req'.body, "title") /\ ~Has(req'.body, "recipe"))
              => (store'[req'.id] # NoRow
                    /\ store'[req'.id].recipe = store[req'.id].recipe)
         /\ (Has(req'.body, "recipe") /\ ~Has(req'.body, "title"))
              => (store'[req'.id] # NoRow
                    /\ store'[req'.id].title = store[req'.id].title)]_vars

C3_Witness ==
    /\ req # NoReq
    /\ req.method = "PATCH"
    /\ req.body = BodyObj([title |-> JStr("b")])
    /\ resp.status = 200
    /\ store[req.id] = Row(JStr("b"), Dumps(ListB))

\* C4: an authorized DELETE answers 404 and leaves the table unchanged when no
\* drink has the id; otherwise it answers 200 with delete equal to the id and
\* removes that drink. Only a POST adds an id to the table, and a GET that
\* answers 200 lists only drinks the table holds, so a deleted id is in no later
\* listing until a drink is created again.
C4_Delete ==
    [][Handled =>
         /\ (req'.method = "DELETE" /\ Authorized(req')) =>
              IF store[req'.id] = NoRow
              THEN resp'.status = 404 /\ store' = store
              ELSE /\ resp'.status = 200
                   /\ resp'.body.delete = req'.id
                   /\ store' = [store EXCEPT ![req'.id] = NoRow]
         /\ req'.method # "POST" => Present(store') \subseteq Present(store)
         /\ (req'.method = "GET" /\ resp'.status = 200)
              => ReturnedIds(resp') \subseteq Present(store')]_vars

C4_Witness ==
    /\ req # NoReq
    /\ req.method = "DELETE"
    /\ resp.status = 200
    /\ resp.body.delete = req.id
    /\ store[req.id] = NoRow
    /\ Present(store) # {}

C6_ErrorEnvelope ==
    (req # NoReq /\ resp.status # 200) =>
        /\ DOMAIN resp.body = {"success", "error", "message"}
        /\ resp.body.success = FALSE
        /\ resp.body.error = resp.status
        /\ (Protected(req) /\ ~Authorized(req)) =>
              LET failure == requires_auth(RequiredPermission(req), req.token)
              IN resp.body.message
                   = failure.error.code \o " : " \o failure.error.description

\* C7: an authorized POST ends in 200 with exactly one drink added and returned,
\* or in 422 with the table unchanged; a missing body, a missing title or a
\* title an existing drink has ends in 422.
C7_CreateOutcome ==
    [][(Handled /\ req'.method = "POST" /\ Authorized(req')) =>
         /\ \/ /\ resp'.status = 200
               /\ \E i \in Ids :
                     /\ store[i] = NoRow
                     /\ store'[i] # NoRow
                     /\ store' = [store EXCEPT ![i] = store'[i]]
                     /\ resp'.body.drinks = <<long(i, store'[i])>>
            \/ resp'.status = 422 /\ store' = store
         /\ (\/ req'.body.kind = "none"
             \/ ~Has(req'.body, "title")
             \/ \E i \in Present(store) : store[i].title = req'.body.fields["title"])
              => (resp'.status = 422 /\ store' = store)]_vars

\* C8: an authorized PATCH of an existing drink that answers 200 applies every
\* field its body has, whatever the value: the stored and the returned title and
\* recipe equal the body's.
C8_PatchApplies ==
    (req # NoReq /\ req.method = "PATCH" /\ resp.status = 200) =>
        /\ Has(req.body, "title") =>
              /\ store[req.id].title = req.body.fields["title"]
              /\ resp.body.drinks[1].title = req.body.fields["title"]
        /\ Has(req.body, "recipe") =>
              /\ store[req.id].recipe = Dumps(req.body.fields["recipe"])
              /\ resp.body.drinks[1].recipe = req.body.fields["recipe"]

\* C9: every stored recipe is a list of ingredient entries, and no GET fails
\* while reading one.
C9_RecipesValid ==
    /\ \A i \in Present(store) : Loads(store[i].recipe).k = "list"
    /\ (req # NoReq /\ req.method = "GET") => resp.status # 500

\* C10: when two authorized requests on the same existing drink interleave
\* between their find-by-id and their write, the last write wins: once both
\* have completed, a drink is absent only if it was deleted, each field of a
\* drink holds its prior value or one a PATCH of that drink sent, no drink that
\* neither request targets has changed, and a PATCH answers 200 only with the
\* record the table holds for the id when the response is built, after its write.
Done == \A w \in Workers : pc[w] = "done"
Acted(w, i) == wreq[w] # NoReq /\ wreq[w].id = i /\ Authorized(wreq[w])
Patching(i, key) ==
    {w \in Workers : Acted(w, i) /\ wreq[w].method = "PATCH" /\ Has(wreq[w].body, key)}
SentTitles(i) == {wreq[w].body.fields["title"] : w \in Patching(i, "title")}
SentRecipes(i) == {Dumps(wreq[w].body.fields["recipe"]) : w \in Patching(i, "recipe")}

C10_LastWriteWins ==
    /\ [](Done =>
            \A i \in Ids :
               /\ store[i] # ConcStore0[i] => \E w \in Workers : Acted(w, i)
               /\ IF store[i] = NoRow
                  THEN \/ ConcStore0[i] = NoRow
                       \/ \E w \in Workers : Acted(w, i) /\ wreq[w].method = "DELETE"
                  ELSE /\ ConcStore0[i] # NoRow
                       /\ store[i].title \in {ConcStore0[i].title} \cup SentTitles(i)
                       /\ store[i].recipe \in {ConcStore0[i].recipe} \cup SentRecipes(i))
    /\ [][\A w \in Workers :
            (pc[w] # "done" /\ pc'[w] = "done"
               /\ wreq'[w].method = "PATCH" /\ wresp'[w].status = 200) =>
                 /\ pc[w] = "updated"
                 /\ store'[wreq'[w].id] # NoRow
                 /\ wresp'[w].body.drinks
                      = <<[id |-> wreq'[w].id,
                           title |-> store'[wreq'[w].id].title,
                           recipe |-> Loads(store'[wreq'[w].id].recipe)]>>]_vars

\* A PATCH that sent only a recipe found the drink and then failed, because a
\* DELETE of the same drink committed between its find and its write.
C10_Witness ==
    /\ Done
    /\ wreq["w1"].method = "PATCH"
    /\ wreq["w1"].id = 1
    /\ wreq["w1"].token = Manager
    /\ wreq["w1"].body = BodyObj([recipe |-> ListB])
    /\ wresp["w1"].status = 422
    /\ wreq["w2"].method = "DELETE"
    /\ wreq["w2"].id = 1
    /\ wresp["w2"].status = 200
    /\ store[1] = NoRow
    /\ store[2] = ConcStore0[2]

====
